---- MODULE Spec2Model ----
(***************************************************************************)
(* A model of the algorhythm backend: the active playlist session and its  *)
(* four endpoints (main.py), the DNA builder's sample-size gate            *)
(* (dna_builder.py), the scorer's blend and verdict (scorer.py) and the    *)
(* artist neighborhood crawler (neighborhood.py).                          *)
(*                                                                         *)
(* Python's None is the empty tuple and a present value x is <<x>>, so an  *)
(* "is None" test is a comparison with None.  A Python dict is a record;   *)
(* the test `"error" in d` is `"error" \in DOMAIN d`.                      *)
(***************************************************************************)
EXTENDS Integers, Sequences, FiniteSets, TLC

VARIABLES
    active_session,   \* main.py: the process-wide session dict
    response,         \* the last request served and the response it got
    inflight,         \* the requests being served concurrently, one per endpoint
    score_input,      \* scorer.py: the library outputs for one song
    score_report,     \* scorer.py: what score_song returned for them
    crawl,            \* neighborhood.py: one build_artist_neighborhood call
    call              \* one call of a function: its inputs and what it returned

vars == <<active_session, response, inflight, score_input, score_report, crawl, call>>

----------------------------------------------------------------------------
(* Bounds of the model *)

\* the longest playlist the provider returns
MaxTracks == 4
\* the number of distinct playlists an /analyze request can name
NumPlaylists == 2

----------------------------------------------------------------------------
(* Values *)

None == << >>
Some(x) == <<x>>
Get(opt) == opt[1]

\* dna_builder.py:26  `if len(df) < 3`
MinTracks == 3

\* The DataFrame fetch_playlist_data returns for playlist p when the provider
\* lists n tracks: n distinct rows under a RangeIndex.  A row is identified
\* by a number that is unique across playlists.
Frame(p, n) == [i \in 1..n |-> 10 * p + i]

\* fetch_playlist_data: an error dict, or playlist_id / playlist_name / data.
FetchError == [error |-> "fetch failed"]
\* fetcher.py:46-104: the code outside the try blocks (the merge on 'id' of
\* frames of which one is empty, a track without artists) raises instead
FetchRaised == [raised |-> "KeyError"]
FetchOk(p, n) == [playlist_id |-> p, playlist_name |-> p, data |-> Frame(p, n)]
FetchResults ==
    {FetchError} \cup {FetchOk(p, n) : p \in 1..NumPlaylists, n \in 0..MaxTracks}

\* fetch_track_features: an error dict, or the song's feature dict.
TrackError == [error |-> "no features"]
TrackOk == [name |-> "song"]
TrackResults == {TrackError, TrackOk}

\* The positions lists an ExcludeRequest may carry: any integers; 0 stands
\* for every position below 1 and MaxTracks + 1 is above every track count.
\* The requests name no, one or two positions, the same one twice included.
RECURSIVE SeqsUpTo(_, _)
SeqsUpTo(S, n) ==
    IF n = 0 THEN {<< >>}
    ELSE LET shorter == SeqsUpTo(S, n - 1)
         IN shorter \cup {Append(s, x) : s \in {t \in shorter : Len(t) = n - 1}, x \in S}

PositionLists == SeqsUpTo(0..(MaxTracks + 1), 2)

RecordsFromZero(df) == [i \in 1..Len(df) |-> [row |-> df[i], position |-> i - 1]]

\* to_dict(orient="records") followed by rec["position"] = i + 1
Records(df) == [i \in 1..Len(df) |-> [row |-> df[i], position |-> i]]

----------------------------------------------------------------------------
(* dna_builder.py *)

build_playlist_dna_no_gate(df, playlist_name) ==
    [playlist_name |-> playlist_name, track_count |-> Len(df), sample |-> df]

\* The descriptor is a deterministic function of the frame it is fitted on
\* (scaler, mean, covariance, forest, PCA, all with fixed seeds); `sample`
\* stands for those fitted statistics.
build_playlist_dna(df, playlist_name) ==
    IF Len(df) < MinTracks
    THEN [error |-> "Need at least 3 tracks to build DNA."]
    ELSE [playlist_name |-> playlist_name, track_count |-> Len(df), sample |-> df]

----------------------------------------------------------------------------
(* main.py: the handlers' pure parts *)

\* main.py:98-105: the first out-of-range position, or 0 when all are valid
RECURSIVE FirstBad(_, _, _)
FirstBad(positions, k, n) ==
    IF k > Len(positions) THEN 0
    ELSE IF positions[k] < 1 \/ positions[k] > n THEN k
    ELSE FirstBad(positions, k + 1, n)

ValidatePositionsUpperOnly(positions, n) ==
    IF \E k \in DOMAIN positions : positions[k] > n
    THEN CHOOSE k \in DOMAIN positions : positions[k] > n
    ELSE 0

\* main.py:98-105 as the loop runs it, from the first position on
ValidatePositions(positions, n) == FirstBad(positions, 1, n)

\* indices_to_drop.append(pos - 1)
IndicesToDrop(positions) == [k \in 1..Len(positions) |-> positions[k] - 1]

DropKeepsFirst(df, indices_to_drop) ==
    IF Len(indices_to_drop) = 0 THEN df ELSE Tail(df)

\* df.drop(df.index[indices_to_drop]).reset_index(drop=True): the rows whose
\* 0-based index is not listed, in their order, renumbered from 0.
Drop(df, indices_to_drop) ==
    LET dropped == {indices_to_drop[k] : k \in DOMAIN indices_to_drop}
        F[i \in 0..Len(df)] ==
            IF i = 0 THEN << >>
            ELSE IF (i - 1) \in dropped THEN F[i - 1]
            ELSE Append(F[i - 1], df[i])
    IN F[Len(df)]

\* main.py:66-69
analyze_store(session, result) ==
    [playlist_id |-> Some(result.playlist_id),
     playlist_name |-> Some(result.playlist_name),
     data |-> Some(result.data),
     dna |-> None]

exclude_store_keeps_dna(session, filtered_df) ==
    [session EXCEPT !.data = Some(filtered_df)]

\* main.py:114-115
exclude_store(session, filtered_df) ==
    [session EXCEPT !.data = Some(filtered_df), !.dna = None]

----------------------------------------------------------------------------
(* scorer.py.  Scores are fixed-point numbers in units of 1/Scale, the     *)
(* resolution round(x, 4) leaves; the blend is in units of                 *)
(* 1/(Scale * WeightScale).                                                *)

\* scorer.py:40  round(..., 4)
Scale == 10000
\* scorer.py:57-59: the weights 0.30, 0.45, 0.25 as hundredths
WeightScale == 100
WCosine == 30
WMahalanobis == 45
WIsolation == 25
\* scorer.py:70, 72
AddThreshold == 6000
MaybeThreshold == 4000
\* scorer.py:53: (iso_raw_score + 0.70) / 0.40
IsoOffset == 7000
IsoSpan == 4000

\* round(n / d) to the nearest integer.  At a decimal tie the float that
\* Python rounds lies a hair above or below the tie, so both neighbours are
\* outcomes; tie_up says which one the float arithmetic produced.
RoundDiv(n, d, tie_up) ==
    LET q == n \div d
        r == n % d
    IN IF 2 * r < d THEN q
       ELSE IF 2 * r > d THEN q + 1
       ELSE IF tie_up THEN q + 1 ELSE q

NoClamp(x) == x

\* max(0, min(1, x))
Clamp01(x) == IF x < 0 THEN 0 ELSE IF x > Scale THEN Scale ELSE x

\* scorer.py:47  round(exp(-(maha_dist ** 2) / (2 * N_FEATURES)), 4) for the
\* distances 0, 1, 2, ..., with N_FEATURES = 9; 0 from distance 14 on.
MahaTable ==
    <<10000, 9460, 8007, 6065, 4111, 2494, 1353, 657, 286, 111, 39, 12, 3, 1>>
MahaScore(maha_dist) ==
    IF maha_dist + 1 <= Len(MahaTable) THEN MahaTable[maha_dist + 1] ELSE 0

\* scorer.py:38-40
CosineScore(cosine_sim) == Clamp01(cosine_sim)

\* scorer.py:50-53, iso_raw in units of 1/Scale
IsoScore(iso_raw, tie_up) ==
    LET num == (iso_raw + IsoOffset) * Scale
        clamped == IF num < 0 THEN 0
                   ELSE IF num > Scale * IsoSpan THEN Scale * IsoSpan ELSE num
    IN RoundDiv(clamped, IsoSpan, tie_up)

BlendCosineHeavy(cosine_score, maha_score, iso_score) ==
    WMahalanobis * cosine_score + WCosine * maha_score + WIsolation * iso_score

\* scorer.py:62-66, before rounding
Blend(cosine_score, maha_score, iso_score) ==
    WCosine * cosine_score + WMahalanobis * maha_score + WIsolation * iso_score

VerdictStrict(composite) ==
    IF composite > AddThreshold THEN "ADD"
    ELSE IF composite > MaybeThreshold THEN "MAYBE"
    ELSE "REJECT"

\* scorer.py:70-75
Verdict(composite) ==
    IF composite >= AddThreshold THEN "ADD"
    ELSE IF composite >= MaybeThreshold THEN "MAYBE"
    ELSE "REJECT"

\* score_song(song_features, dna).  lib holds what the numeric libraries
\* return for this song and descriptor: scipy's cosine similarity and
\* Mahalanobis distance, the forest's score_samples value, and the
\* direction the float arithmetic takes at the two decimal ties.
score_song(song_features, dna, lib) ==
    LET cosine_score == CosineScore(lib.cosine_sim)
        maha_score == MahaScore(lib.maha_dist)
        iso_score == IsoScore(lib.iso_raw, lib.iso_tie_up)
        composite == RoundDiv(Blend(cosine_score, maha_score, iso_score),
                              WeightScale, lib.blend_tie_up)
    IN [song |-> song_features.name,
        playlist |-> dna.playlist_name,
        scores |-> [cosine_similarity |-> cosine_score,
                    mahalanobis_fit |-> maha_score,
                    isolation_forest |-> iso_score,
                    composite |-> composite],
        verdict |-> Verdict(composite)]

Lib(c, d, r, it, bt) ==
    [cosine_sim |-> c, maha_dist |-> d, iso_raw |-> r,
     iso_tie_up |-> it, blend_tie_up |-> bt]

\* Library outputs the scorer is exercised on: similarities below 0, inside
\* and at the ends of [0,1]; distances from 0 to far; forest scores below,
\* inside and above the rescaled range [-0.70, -0.30].
CosineSims == {-5000, 0, 2570, 4215, 4231, 4995, 9990, 10000}
MahaDists == {0, 1, 3, 5, 14}
IsoRaws == {-10000, -7000, -6999, -6998, -6990, -6562, -5000, -3000, 0}
LibOutputs ==
    {Lib(c, d, r, it, bt) : c \in CosineSims, d \in MahaDists, r \in IsoRaws,
                            it \in BOOLEAN, bt \in BOOLEAN}

\* The library outputs the /score endpoint of the session model draws from.
SessionLibOutputs == {Lib(9990, 0, -3000, FALSE, FALSE), Lib(0, 14, -10000, FALSE, FALSE)}

----------------------------------------------------------------------------
(* main.py: the four session endpoints, each as the response it gives and  *)
(* the session it leaves.                                                  *)

\* A response: HTTPException(status_code, detail) has status 4xx and the
\* detail as body; a returned dict has status 200.  dna is the descriptor
\* the handler handed to score_song, None when it did not score.  again
\* records that the call is an /exclude naming a position that the call
\* before it, an /exclude that returned normally, named too.
Http(op, request, status, body) ==
    [op |-> op, request |-> request, status |-> status, body |-> body,
     dna |-> None, again |-> FALSE]

NoPlaylist == [detail |-> "No active playlist. Run /analyze first."]
NoDna == [detail |-> "No DNA built yet. Run /build-dna first."]
OutOfRange(pos, n) == [detail |-> "out of range", position |-> pos, valid_max |-> n]

\* main.py:71-80
analyze_body(result) ==
    [playlist_name |-> result.playlist_name,
     track_count |-> Len(result.data),
     data |-> Records(result.data)]

\* main.py:117-129
exclude_body(playlist_name, df, filtered_df) ==
    [playlist_name |-> playlist_name,
     excluded_count |-> Len(df) - Len(filtered_df),
     remaining_count |-> Len(filtered_df),
     data |-> Records(filtered_df)]

\* main.py:265-280, the fields the claims read
build_body(dna) ==
    [status |-> "DNA Built Successfully",
     playlist_name |-> dna.playlist_name,
     track_count |-> dna.track_count]

----------------------------------------------------------------------------
(* main.py: the handlers.  Each yields the session it leaves and the       *)
(* response it gives.                                                      *)

Outcome(session, resp) == [session |-> session, response |-> resp]

\* the framework's answer to a handler that raised
ServerError == [detail |-> "Internal Server Error"]

analyze_playlist_drops_dna(session, request, result) ==
    IF "raised" \in DOMAIN result
    THEN Outcome(session, Http("analyze", request, 500, ServerError))
    ELSE IF "error" \in DOMAIN result
    THEN Outcome([session EXCEPT !.dna = None], Http("analyze", request, 200, result))
    ELSE Outcome(analyze_store(session, result),
                 Http("analyze", request, 200, analyze_body(result)))

\* main.py:55-80; result is what fetch_playlist_data returned, or that it
\* raised
analyze_playlist(session, request, result) ==
    IF "raised" \in DOMAIN result
    THEN Outcome(session, Http("analyze", request, 500, ServerError))
    ELSE IF "error" \in DOMAIN result
    THEN Outcome(session, Http("analyze", request, 200, result))
    ELSE Outcome(analyze_store(session, result),
                 Http("analyze", request, 200, analyze_body(result)))

\* main.py:82-129
exclude_tracks(session, request) ==
    IF session.data = None
    THEN Outcome(session, Http("exclude", request, 404, NoPlaylist))
    ELSE LET df == Get(session.data)
             playlist_name == Get(session.playlist_name)
             bad == ValidatePositions(request.positions, Len(df))
         IN IF bad # 0
            THEN Outcome(session,
                         Http("exclude", request, 400,
                              OutOfRange(request.positions[bad], Len(df))))
            ELSE LET filtered_df == Drop(df, IndicesToDrop(request.positions))
                 IN Outcome(exclude_store(session, filtered_df),
                            Http("exclude", request, 200,
                                 exclude_body(playlist_name, df, filtered_df)))

\* main.py:131-151 and the response of 265-280
build_dna(session, request) ==
    IF session.data = None
    THEN Outcome(session, Http("build", request, 404, NoPlaylist))
    ELSE LET dna == build_playlist_dna(Get(session.data), Get(session.playlist_name))
         IN IF "error" \in DOMAIN dna
            THEN Outcome(session, Http("build", request, 200, dna))
            ELSE Outcome([session EXCEPT !.dna = Some(dna)],
                         Http("build", request, 200, build_body(dna)))

score_track_defaults(session, request, song_data, lib) ==
    IF "error" \in DOMAIN song_data
    THEN Outcome(session, Http("score", request, 200, song_data))
    ELSE LET dna == IF session.dna = None
                    THEN build_playlist_dna_no_gate(<< >>, 0)
                    ELSE Get(session.dna)
         IN Outcome(session,
                    [Http("score", request, 200, score_song(song_data, dna, lib))
                        EXCEPT !.dna = Some(dna)])

\* main.py:282-302; song_data is what fetch_track_features returned
score_track(session, request, song_data, lib) ==
    IF session.dna = None
    THEN Outcome(session, Http("score", request, 404, NoDna))
    ELSE IF "error" \in DOMAIN song_data
    THEN Outcome(session, Http("score", request, 200, song_data))
    ELSE Outcome(session,
                 [Http("score", request, 200,
                       score_song(song_data, Get(session.dna), lib))
                     EXCEPT !.dna = session.dna])

----------------------------------------------------------------------------
(* The values the variables of the other specifications rest at *)

NoResponse == Http("none", [url |-> 0], 0, [detail |-> "none"])
IdleInflight ==
    [analyze |-> [pc |-> "idle"],
     exclude |-> [pc |-> "idle"],
     build |-> [pc |-> "idle"],
     score |-> [pc |-> "idle", scored |-> FALSE, stale |-> FALSE, crashed |-> FALSE]]
IdleCrawl == [pc |-> "idle"]

NoCall == [op |-> "none"]

\* main.py:23-28
EmptySession ==
    [playlist_id |-> None, playlist_name |-> None, data |-> None, dna |-> None]

----------------------------------------------------------------------------
(* Spec: the four endpoints served one request at a time *)

Init ==
    /\ active_session = EmptySession
    /\ response = NoResponse
    /\ inflight = IdleInflight
    /\ score_input = None
    /\ score_report = None
    /\ crawl = IdleCrawl
    /\ call = NoCall

Served(outcome) ==
    /\ active_session' = outcome.session
    /\ response' = outcome.response

Analyze ==
    /\ \E p \in 1..NumPlaylists :
          \E result \in {FetchError, FetchRaised} \cup {FetchOk(p, n) : n \in 0..MaxTracks} :
              Served(analyze_playlist(active_session, [url |-> p], result))
    /\ UNCHANGED <<inflight, score_input, score_report, crawl, call>>

Exclude ==
    /\ \E positions \in PositionLists :
          LET outcome == exclude_tracks(active_session, [positions |-> positions])
              again == /\ response.op = "exclude"
                       /\ response.status = 200
                       /\ \E k \in DOMAIN positions, j \in DOMAIN response.request.positions :
                             positions[k] = response.request.positions[j]
          IN /\ active_session' = outcome.session
             /\ response' = [outcome.response EXCEPT !.again = again]
    /\ UNCHANGED <<inflight, score_input, score_report, crawl, call>>

BuildDna ==
    /\ Served(build_dna(active_session, [url |-> 0]))
    /\ UNCHANGED <<inflight, score_input, score_report, crawl, call>>

Score ==
    /\ \E song_data \in TrackResults, lib \in SessionLibOutputs :
          Served(score_track(active_session, [url |-> 0], song_data, lib))
    /\ UNCHANGED <<inflight, score_input, score_report, crawl, call>>

Next == Analyze \/ Exclude \/ BuildDna \/ Score

Spec == Init /\ [][Next]_vars

----------------------------------------------------------------------------
(* Claims about the session, under Spec *)

Range(seq) == {seq[i] : i \in DOMAIN seq}

HoldsDescriptor == active_session.dna # None

\* C1: with the endpoints served one at a time, a descriptor the session
\* holds was built from exactly the track set the session holds; after a
\* successful /analyze and after an /exclude that returned normally the
\* session holds no descriptor; and /score is rejected while there is none,
\* so a report is always computed from the descriptor of the current tracks.
C1_DescriptorBuiltFromCurrentTracks ==
    /\ HoldsDescriptor =>
          /\ active_session.data # None
          /\ Get(active_session.dna).sample = Get(active_session.data)
    /\ (/\ response.op \in {"analyze", "exclude"}
        /\ response.status = 200
        /\ "error" \notin DOMAIN response.body) => ~HoldsDescriptor
    /\ (response.op = "score" /\ ~HoldsDescriptor) => response.status = 404
    /\ (response.op = "score" /\ response.dna # None) =>
          /\ response.dna = active_session.dna
          /\ Get(response.dna).sample = Get(active_session.data)

\* C1 witness: a report scored against a descriptor rebuilt after an
\* exclusion that left a gap in the playlist
C1_Witness ==
    /\ response.op = "score"
    /\ response.dna # None
    /\ Get(active_session.data) #
          Frame(Get(active_session.playlist_id), Len(Get(active_session.data)))

\* C3: a build from fewer than 3 tracks answers with an error value and
\* stores no descriptor, and every stored descriptor has track_count >= 3.
C3_NoDescriptorBelowThreeTracks ==
    /\ HoldsDescriptor =>
          /\ Get(active_session.dna).track_count >= 3
          /\ Get(active_session.dna).track_count = Len(Get(active_session.dna).sample)
    /\ (/\ response.op = "build"
        /\ response.status = 200
        /\ Len(Get(active_session.data)) < 3) =>
          /\ "error" \in DOMAIN response.body
          /\ ~HoldsDescriptor

\* C3 witness: /build-dna answered a session of exactly two tracks
C3_Witness ==
    /\ response.op = "build"
    /\ response.status = 200
    /\ Len(Get(active_session.data)) = 2
    /\ "error" \in DOMAIN response.body

\* C4: a /score call made while the session holds no descriptor is answered
\* with an error (404), never with a score report, and leaves the session
\* as it was.
C4_ScoreWithoutDescriptorRejected ==
    [][(response'.op = "score" /\ ~HoldsDescriptor) =>
          /\ response'.status = 404
          /\ response'.body = NoDna
          /\ response'.dna = None
          /\ active_session' = active_session]_vars

\* C4 witness: /score rejected on a session whose tracks are loaded
C4_Witness ==
    /\ response.op = "score"
    /\ response.status = 404
    /\ active_session.data # None
    /\ ~HoldsDescriptor

OutOfRangeIn(positions, n) ==
    \E k \in DOMAIN positions : positions[k] < 1 \/ positions[k] > n

\* C5: an /exclude request with a position below 1 or above the current
\* track count is answered with a range error (400); no track is removed,
\* the valid positions of the request included, and the descriptor stays.
C5_OutOfRangeRejectedWhole ==
    [][(/\ response'.op = "exclude"
        /\ active_session.data # None
        /\ OutOfRangeIn(response'.request.positions, Len(Get(active_session.data)))) =>
          /\ response'.status = 400
          /\ response'.body.detail = "out of range"
          /\ active_session' = active_session]_vars

\* C5 witness: a rejected request that also named a valid position, on a
\* session that holds a descriptor
C5_Witness ==
    /\ response.op = "exclude"
    /\ response.status = 400
    /\ HoldsDescriptor
    /\ \E k \in DOMAIN response.request.positions :
          response.request.positions[k] \in 1..Len(Get(active_session.data))

\* Two consecutive /exclude calls, the first of which returned normally,
\* that name a common position
SamePositionTwice ==
    /\ response.op = "exclude"
    /\ response.status = 200
    /\ response'.op = "exclude"
    /\ Range(response.request.positions) \cap Range(response'.request.positions) # {}

\* C6 as claimed: the second of two consecutive removals of the same
\* position is rejected with a range error or removes nothing further.
C6_SecondRemovalRejectedOrIdempotent ==
    [][SamePositionTwice =>
          \/ response'.status = 400
          \/ active_session'.data = active_session.data]_vars

\* C6 as amended: the second call is rejected with a range error exactly when
\* one of its positions is outside the track set the first call left;
\* otherwise it removes the tracks that now stand at its positions, tracks
\* the first call had left in place.
C6_SecondRemovalTakesRenumberedTrack ==
    [][SamePositionTwice =>
          LET df == Get(active_session.data)
              positions == response'.request.positions
              left == {response.body.data[i].row : i \in DOMAIN response.body.data}
          IN IF OutOfRangeIn(positions, Len(df))
             THEN response'.status = 400 /\ active_session' = active_session
             ELSE /\ response'.status = 200
                  /\ \A p \in Range(positions) : df[p] \in left
                  /\ Range(Get(active_session'.data)) =
                        Range(df) \ {df[p] : p \in Range(positions)}
                  /\ Len(Get(active_session'.data)) < Len(df)]_vars

\* C6 witness: position 2 removed by two consecutive calls, both returning
\* normally
C6_Witness ==
    /\ response.op = "exclude"
    /\ response.again
    /\ response.status = 200
    /\ response.request.positions = <<2>>
    /\ response.body.excluded_count = 1

\* An /analyze response whose fetch failed: an error value, or the answer
\* to a fetch that raised
AnalyzeFailed(resp) ==
    /\ resp.op = "analyze"
    /\ resp.status = 500 \/ "error" \in DOMAIN resp.body

\* C21: an /analyze call whose fetch fails returns the error and leaves the
\* session (playlist id, name, track set and descriptor) exactly as it was,
\* so a descriptor built before is still the one /score uses; an /analyze
\* call changes the session only when its fetch succeeds, and then the
\* session holds the fetched playlist and no descriptor.
C21_FailedAnalyzeLeavesSession ==
    [][/\ response'.op = "analyze" =>
            IF AnalyzeFailed(response')
            THEN /\ active_session' = active_session
                 /\ response'.status = 200 => response'.body = FetchError
            ELSE /\ active_session'.playlist_id = Some(response'.request.url)
                 /\ active_session'.playlist_name = Some(response'.body.playlist_name)
                 /\ active_session'.data # None
                 /\ Records(Get(active_session'.data)) = response'.body.data
                 /\ active_session'.dna = None
       /\ (AnalyzeFailed(response) /\ HoldsDescriptor /\ response'.op = "score") =>
            /\ response'.status = 200
            /\ "error" \notin DOMAIN response'.body => response'.dna = active_session.dna
            /\ active_session' = active_session]_vars

\* C21 witness: /analyze answered with the fetch error on a session that
\* holds the tracks and the descriptor of an earlier playlist
C21_Witness ==
    /\ AnalyzeFailed(response)
    /\ response.body = FetchError
    /\ HoldsDescriptor
    /\ active_session.playlist_id # Some(response.request.url)
    /\ Get(active_session.dna).sample = Get(active_session.data)

\* a fetch that raised, on a session that holds a descriptor
C21_RaisedWitness ==
    /\ AnalyzeFailed(response)
    /\ response.status = 500
    /\ HoldsDescriptor

\* the place of a row in a frame whose rows are distinct
RowPlace(df, row) == CHOOSE i \in DOMAIN df : df[i] = row

\* C22: for every /exclude request that returns normally, excluded_count +
\* remaining_count is the track count before the call, excluded_count is
\* the number of distinct positions in the request, and the remaining
\* tracks are the ones not named, in their relative order, numbered
\* 1..remaining_count.
C22_ExcludeCountsAndRenumbers ==
    [][(response'.op = "exclude" /\ response'.status = 200) =>
          LET df == Get(active_session.data)
              after == Get(active_session'.data)
              body == response'.body
              positions == response'.request.positions
          IN /\ body.excluded_count + body.remaining_count = Len(df)
             /\ body.excluded_count = Cardinality(Range(positions))
             /\ body.remaining_count = Len(body.data)
             /\ Len(after) = Len(body.data)
             /\ \A i \in DOMAIN body.data :
                   /\ body.data[i].position = i
                   /\ body.data[i].row = after[i]
             /\ Range(after) = Range(df) \ {df[q] : q \in Range(positions)}
             /\ \A i, j \in DOMAIN after :
                   i < j => RowPlace(df, after[i]) < RowPlace(df, after[j])]_vars

\* C22 witness: a request that lists position 2 twice removed one track
\* from the middle of four, and the last two moved up
C22_Witness ==
    /\ response.op = "exclude"
    /\ response.status = 200
    /\ response.request.positions = <<2, 2>>
    /\ response.body.excluded_count = 1
    /\ response.body.remaining_count = 3
    /\ response.body.data[2].row = Frame(Get(active_session.playlist_id), 4)[3]
    /\ response.body.data[2].position = 2

----------------------------------------------------------------------------
(* SpecConc: the endpoints served concurrently.  The handlers are plain    *)
(* `def` functions, which the framework runs on worker threads; nothing in *)
(* main.py locks active_session, so the handlers interleave between any    *)
(* two accesses to it.  inflight holds, per endpoint, the position of the  *)
(* request being served and its local variables; a step is one read or one *)
(* write of active_session together with the local code up to the next.    *)

Others == <<response, score_input, score_report, crawl, call>>

At(endpoint, pc) == inflight[endpoint].pc = pc
Goto(endpoint, locals) == inflight' = [inflight EXCEPT ![endpoint] = locals]

\* main.py:60-63: fetch_playlist_data; an error is returned at once
AnalyzeFetch ==
    /\ At("analyze", "idle")
    /\ \E p \in 1..NumPlaylists :
          \E result \in {FetchError, FetchOk(p, MaxTracks)} :
              IF "error" \in DOMAIN result
              THEN Goto("analyze", [pc |-> "idle"])
              ELSE Goto("analyze", [pc |-> "store_playlist_id", result |-> result])
    /\ UNCHANGED <<active_session, Others>>

\* main.py:66
AnalyzeStoreId ==
    /\ At("analyze", "store_playlist_id")
    /\ active_session' = [active_session EXCEPT
            !.playlist_id = Some(inflight.analyze.result.playlist_id)]
    /\ Goto("analyze", [inflight.analyze EXCEPT !.pc = "store_playlist_name"])
    /\ UNCHANGED Others

\* main.py:67
AnalyzeStoreName ==
    /\ At("analyze", "store_playlist_name")
    /\ active_session' = [active_session EXCEPT
            !.playlist_name = Some(inflight.analyze.result.playlist_name)]
    /\ Goto("analyze", [inflight.analyze EXCEPT !.pc = "store_data"])
    /\ UNCHANGED Others

\* main.py:68
AnalyzeStoreData ==
    /\ At("analyze", "store_data")
    /\ active_session' = [active_session EXCEPT
            !.data = Some(inflight.analyze.result.data)]
    /\ Goto("analyze", [pc |-> "store_dna"])
    /\ UNCHANGED Others

\* main.py:69 and the return
AnalyzeStoreDna ==
    /\ At("analyze", "store_dna")
    /\ active_session' = [active_session EXCEPT !.dna = None]
    /\ Goto("analyze", [pc |-> "idle"])
    /\ UNCHANGED Others

\* main.py:87-91
ExcludeCheck ==
    /\ At("exclude", "idle")
    /\ IF active_session.data = None
       THEN Goto("exclude", [pc |-> "idle"])
       ELSE Goto("exclude", [pc |-> "read_df"])
    /\ UNCHANGED <<active_session, Others>>

\* main.py:93
ExcludeReadDf ==
    /\ At("exclude", "read_df")
    /\ Goto("exclude", [pc |-> "read_name", df |-> Get(active_session.data)])
    /\ UNCHANGED <<active_session, Others>>

\* main.py:94-113: the name is read, the positions validated and the
\* filtered frame computed from the local df.  The concurrent requests carry
\* at most one position each.
ExcludeReadName ==
    /\ At("exclude", "read_name")
    /\ \E positions \in SeqsUpTo(0..(MaxTracks + 1), 1) :
          LET df == inflight.exclude.df
          IN IF ValidatePositions(positions, Len(df)) # 0
             THEN Goto("exclude", [pc |-> "idle"])
             ELSE Goto("exclude", [pc |-> "store_data",
                                   filtered_df |-> Drop(df, IndicesToDrop(positions))])
    /\ UNCHANGED <<active_session, Others>>

\* main.py:114
ExcludeStoreData ==
    /\ At("exclude", "store_data")
    /\ active_session' = [active_session EXCEPT
            !.data = Some(inflight.exclude.filtered_df)]
    /\ Goto("exclude", [pc |-> "store_dna"])
    /\ UNCHANGED Others

\* main.py:115 and the return
ExcludeStoreDna ==
    /\ At("exclude", "store_dna")
    /\ active_session' = [active_session EXCEPT !.dna = None]
    /\ Goto("exclude", [pc |-> "idle"])
    /\ UNCHANGED Others

\* main.py:137-141
BuildCheck ==
    /\ At("build", "idle")
    /\ IF active_session.data = None
       THEN Goto("build", [pc |-> "idle"])
       ELSE Goto("build", [pc |-> "read_df"])
    /\ UNCHANGED <<active_session, Others>>

\* main.py:143
BuildReadDf ==
    /\ At("build", "read_df")
    /\ Goto("build", [pc |-> "read_name", df |-> Get(active_session.data)])
    /\ UNCHANGED <<active_session, Others>>

\* main.py:144-149: the name is read and the descriptor fitted on the local df
BuildReadName ==
    /\ At("build", "read_name")
    /\ LET dna == build_playlist_dna(inflight.build.df, Get(active_session.playlist_name))
       IN IF "error" \in DOMAIN dna
          THEN Goto("build", [pc |-> "idle"])
          ELSE Goto("build", [pc |-> "store_dna", dna |-> dna])
    /\ UNCHANGED <<active_session, Others>>

\* main.py:151; the response is built from the local dna
BuildStoreDna ==
    /\ At("build", "store_dna")
    /\ active_session' = [active_session EXCEPT !.dna = Some(inflight.build.dna)]
    /\ Goto("build", [pc |-> "idle"])
    /\ UNCHANGED Others

ScoreIdle(scored, stale, crashed) ==
    [pc |-> "idle", scored |-> scored, stale |-> stale, crashed |-> crashed]

\* main.py:288-298: the None test, then fetch_track_features
ScoreCheck ==
    /\ At("score", "idle")
    /\ IF active_session.dna = None
       THEN Goto("score", ScoreIdle(FALSE, FALSE, FALSE))
       ELSE \E song_data \in TrackResults :
              IF "error" \in DOMAIN song_data
              THEN Goto("score", ScoreIdle(FALSE, FALSE, FALSE))
              ELSE Goto("score", [ScoreIdle(FALSE, FALSE, FALSE) EXCEPT !.pc = "read_dna"])
    /\ UNCHANGED <<active_session, Others>>

\* main.py:301: active_session["dna"] is read again and handed to
\* score_song, which subscripts it: a TypeError when it is None by now.
\* stale records that the descriptor scored against was not fitted on the
\* track set the session held at that moment.
ScoreReadDna ==
    /\ At("score", "read_dna")
    /\ IF active_session.dna = None
       THEN Goto("score", ScoreIdle(FALSE, FALSE, TRUE))
       ELSE Goto("score",
                 ScoreIdle(TRUE,
                           Get(active_session.dna).sample # Get(active_session.data),
                           FALSE))
    /\ UNCHANGED <<active_session, Others>>

NextConc ==
    \/ AnalyzeFetch \/ AnalyzeStoreId \/ AnalyzeStoreName
    \/ AnalyzeStoreData \/ AnalyzeStoreDna
    \/ ExcludeCheck \/ ExcludeReadDf \/ ExcludeReadName
    \/ ExcludeStoreData \/ ExcludeStoreDna
    \/ BuildCheck \/ BuildReadDf \/ BuildReadName \/ BuildStoreDna
    \/ ScoreCheck \/ ScoreReadDna

SpecConc == Init /\ [][NextConc]_vars

\* C2: with the requests interleaved, /score never scores against a
\* descriptor that the session holds but that was fitted on another track
\* set than the one the session holds at that moment.
C2_ReaderObservesConsistentPair ==
    inflight.score.scored => ~inflight.score.stale

\* C2, the lasting form of the violation: with no request in flight the
\* session holds no descriptor of another track set.
C2_QuiescentPairConsistent ==
    (\A e \in DOMAIN inflight : inflight[e].pc = "idle") =>
        (HoldsDescriptor =>
            Get(active_session.dna).sample = Get(active_session.data))

----------------------------------------------------------------------------
(* SpecScorer: score_song applied to every combination of library outputs  *)

\* the descriptor the songs are scored against
ScorerDna == build_playlist_dna(Frame(1, MinTracks), 1)

InitScorer ==
    /\ active_session = EmptySession
    /\ response = NoResponse
    /\ inflight = IdleInflight
    /\ score_input \in {Some(lib) : lib \in LibOutputs}
    /\ score_report = None
    /\ crawl = IdleCrawl
    /\ call = NoCall

ScoreSong ==
    /\ score_report = None
    /\ score_report' = Some(score_song(TrackOk, ScorerDna, Get(score_input)))
    /\ UNCHANGED <<active_session, response, inflight, score_input, crawl, call>>

NextScorer == ScoreSong

SpecScorer == InitScorer /\ [][NextScorer]_vars

Scored == score_report # None
Scores == Get(score_report).scores
ReportedBlend ==
    30 * Scores.cosine_similarity + 45 * Scores.mahalanobis_fit
        + 25 * Scores.isolation_forest
ReportedVerdict == Get(score_report).verdict

\* C7 as claimed: the verdict is ADD exactly when the weighted blend is
\* >= 0.60, MAYBE exactly when it is in [0.40, 0.60), REJECT exactly when it
\* is < 0.40 (the blend in millionths).
C7_VerdictFollowsUnroundedBlend ==
    Scored =>
        /\ ReportedVerdict = "ADD" <=> ReportedBlend >= 600000
        /\ ReportedVerdict = "MAYBE" <=>
              (ReportedBlend >= 400000 /\ ReportedBlend < 600000)
        /\ ReportedVerdict = "REJECT" <=> ReportedBlend < 400000

\* C7 as amended: the verdict follows the composite, which is the blend
\* rounded to 4 decimals: ADD exactly when the composite is >= 0.6000, MAYBE
\* exactly when it is in [0.4000, 0.6000), REJECT exactly when it is below
\* 0.4000; so a blend above 0.59995 and below 0.60 gives ADD and one above
\* 0.39995 and below 0.40 gives MAYBE.
C7_VerdictFollowsRoundedComposite ==
    Scored =>
        /\ 100 * Scores.composite - ReportedBlend \in -50..50
        /\ ReportedVerdict = "ADD" <=> Scores.composite >= 6000
        /\ ReportedVerdict = "MAYBE" <=>
              (Scores.composite >= 4000 /\ Scores.composite < 6000)
        /\ ReportedVerdict = "REJECT" <=> Scores.composite < 4000
        /\ (ReportedBlend > 599950 /\ ReportedBlend < 600000) =>
              ReportedVerdict = "ADD"
        /\ (ReportedBlend > 399950 /\ ReportedBlend < 400000) =>
              ReportedVerdict = "MAYBE"

\* C7 witness: a blend of 0.599975, below 0.60, reported as ADD
C7_Witness ==
    /\ Scored
    /\ ReportedBlend = 599975
    /\ ReportedVerdict = "ADD"

\* C8: the four scores of every report lie in [0,1], the composite is the
\* blend of the other three with the weights 0.30, 0.45, 0.25, which sum to
\* 1, rounded to 4 decimals.
C8_ScoresInUnitInterval ==
    Scored =>
        /\ Scores.cosine_similarity \in 0..10000
        /\ Scores.mahalanobis_fit \in 0..10000
        /\ Scores.isolation_forest \in 0..10000
        /\ Scores.composite \in 0..10000
        /\ WCosine + WMahalanobis + WIsolation = WeightScale
        /\ WeightScale * Scores.composite
              - Blend(Scores.cosine_similarity, Scores.mahalanobis_fit,
                      Scores.isolation_forest) \in -50..50

\* C8 witness: a report for a song whose cosine similarity is negative and
\* whose forest score is above the rescaled range, so both clamps acted
C8_Witness ==
    /\ Scored
    /\ Get(score_input).cosine_sim < 0
    /\ Get(score_input).iso_raw > -3000
    /\ Scores.cosine_similarity = 0
    /\ Scores.isolation_forest = 10000

\* C17: a candidate whose Mahalanobis score and anomaly score are both 0
\* has a composite below 0.40 and the verdict REJECT, whatever its cosine
\* score.
C17_FarCandidateRejected ==
    (Scored /\ Scores.mahalanobis_fit = 0 /\ Scores.isolation_forest = 0) =>
        /\ Scores.composite < MaybeThreshold
        /\ ReportedVerdict = "REJECT"

\* C17 witness: such a candidate with the cosine score 1, whose composite
\* is 0.30
C17_Witness ==
    /\ Scored
    /\ Scores.mahalanobis_fit = 0
    /\ Scores.isolation_forest = 0
    /\ Scores.cosine_similarity = Scale
    /\ Scores.composite = 3000

----------------------------------------------------------------------------
(* neighborhood.py: build_artist_neighborhood *)

\* the longest result page the provider returns (the code asks for limit=50)
MaxPage == 2

\* neighborhood.py:124  `if a_pop < 10`
PopFloor == 10
\* main.py:41  max_artists: Optional[int] = 30
DefaultMaxArtists == 30

\* The provider's catalog, by artist id.  Artist 4 has no genres, a
\* popularity below the floor and a name with capitals.  Artists 3 and 6
\* are equally popular; for root 1 artist 6 shares more genres than artists
\* 2 and 5 and is farther from the root's popularity.
Catalog ==
    <<[id |-> 1, name |-> "a1", genres |-> <<"rap", "hip hop", "trap">>, popularity |-> 60],
      [id |-> 2, name |-> "a2", genres |-> <<"rap">>, popularity |-> 55],
      [id |-> 3, name |-> "a3", genres |-> <<"pop", "rap">>, popularity |-> 80],
      [id |-> 4, name |-> "A4", genres |-> << >>, popularity |-> 5],
      [id |-> 5, name |-> "a5", genres |-> <<"hip hop", "trap">>, popularity |-> 65],
      [id |-> 6, name |-> "a6", genres |-> <<"rap", "hip hop", "trap">>, popularity |-> 80]>>
ArtistIds == DOMAIN Catalog

\* artist_url.split("/")[-1].split("?")[0] of the request: artist 1, who
\* has genres, artist 4, who has none, or 0, an id the provider does not
\* know.  sp.artist answers with the entity that was asked for, so
\* root["id"] is artist_id.
RootRequests == {0, 1, 4}

\* the max_artists a NeighborhoodRequest may carry: null or any integer
MaxArtistsValues == {None} \cup {Some(m) : m \in {-1, 0, 1, 2, DefaultMaxArtists}}

\* str.lower() on the artist names of the model
Lower(name) ==
    CASE name = "A4" -> "a4"
      [] name = "Rap" -> "rap"
      [] OTHER -> name

\* neighborhood.py:87-95
genre_keywords(genre) ==
    CASE genre = "rap" -> <<"hip hop", "trap", "r&b">>
      [] genre = "pop" -> <<"dance pop", "electropop", "indie pop">>
      [] genre = "rock" -> <<"alternative rock", "indie rock", "punk">>
      [] genre = "hip hop" -> <<"rap", "trap", "conscious hip hop">>
      [] genre = "r&b" -> <<"neo soul", "contemporary r&b", "hip hop">>
      [] genre = "trap" -> <<"rap", "hip hop", "drill">>
      [] genre = "indie" -> <<"alternative", "indie rock", "indie pop">>
      [] OTHER -> << >>

\* seq[:n] for n >= 0
Prefix(seq, n) == SubSeq(seq, 1, IF n < Len(seq) THEN n ELSE Len(seq))

\* seq[:max_artists] as Python slices: None keeps everything, a negative
\* stop counts from the end.
Slice(seq, max_artists) ==
    IF max_artists = None THEN seq
    ELSE LET m == Get(max_artists)
         IN IF m >= 0 THEN Prefix(seq, m)
            ELSE Prefix(seq, IF Len(seq) + m > 0 THEN Len(seq) + m ELSE 0)

\* f'genre:"{genre}"' and the plain name query; matched_genre strips the
\* genre:" prefix and the quotes again, which leaves the text.
GenreQuery(genre) == [genre_tag |-> TRUE, text |-> genre]
NameQuery(name) == [genre_tag |-> FALSE, text |-> name]

RECURSIVE Flatten(_)
Flatten(seqs) == IF seqs = << >> THEN << >> ELSE Head(seqs) \o Flatten(Tail(seqs))

\* neighborhood.py:100-106: first occurrences, in order
Dedup(seq) ==
    LET F[i \in 0..Len(seq)] ==
            IF i = 0 THEN << >>
            ELSE IF \E j \in 1..(i - 1) : seq[j] = seq[i] THEN F[i - 1]
            ELSE Append(F[i - 1], seq[i])
    IN F[Len(seq)]

\* neighborhood.py:67-70
SearchGenres(root) ==
    IF root.genres = << >> THEN <<Lower(root.name)>> ELSE root.genres

\* neighborhood.py:77-106
UniqueQueries(root) ==
    LET genres == SearchGenres(root)
        first3 == Prefix(genres, 3)
        first2 == Prefix(genres, 2)
    IN Dedup([i \in 1..Len(first3) |-> GenreQuery(first3[i])]
             \o <<NameQuery(root.name)>>
             \o Flatten([i \in 1..Len(first2) |->
                     [j \in 1..Len(genre_keywords(first2[i])) |->
                         GenreQuery(genre_keywords(first2[i])[j])]]))

Abs(x) == IF x < 0 THEN -x ELSE x

\* neighborhood.py:128-135 and round(relevance, 3), in thousandths:
\* 0.6 * shared / max(len(genres), 1) + 0.4 * (1 - |a_pop - pop| / 100)
Relevance(a, genres, pop) ==
    LET shared == Cardinality(Range(a.genres) \cap Range(genres))
        n == IF Len(genres) > 1 THEN Len(genres) ELSE 1
    IN RoundDiv(600 * shared + 4 * (100 - Abs(a.popularity - pop)) * n, n, FALSE)

CandidateScoredByQuery(a, query, genres, pop) ==
    [id |-> a.id, name |-> a.name, genres |-> a.genres,
     popularity |-> a.popularity, matched_genre |-> query.text,
     relevance_score |-> Relevance(a, genres, pop)
                           + (IF query.genre_tag THEN 100 ELSE 0)]

\* neighborhood.py:137-146
Candidate(a, query, genres, pop) ==
    [id |-> a.id, name |-> a.name, genres |-> a.genres,
     popularity |-> a.popularity, matched_genre |-> query.text,
     relevance_score |-> Relevance(a, genres, pop)]

\* list.sort(key=...): stable, ascending by key.  keys[i] is the key of
\* seq[i]; an element goes behind every element whose key is not larger.
StableSort(seq, keys) ==
    LET Insert(sorted, i) ==
            LET worse == {k \in 1..Len(sorted) : keys[i] < keys[sorted[k]]}
                at == IF worse = {} THEN Len(sorted) + 1
                      ELSE CHOOSE k \in worse : \A j \in worse : k <= j
            IN SubSeq(sorted, 1, at - 1) \o <<i>> \o SubSeq(sorted, at, Len(sorted))
        F[i \in 0..Len(seq)] ==
            IF i = 0 THEN << >> ELSE Insert(F[i - 1], i)
    IN [k \in 1..Len(seq) |-> seq[F[Len(seq)][k]]]

\* neighborhood.py:153  sort(key=lambda x: x["relevance_score"], reverse=True)
\* reverse=True keeps the order of equal keys, as an ascending sort by the
\* negated key does.
SortByRelevance(cands) ==
    StableSort(cands, [i \in 1..Len(cands) |-> -cands[i].relevance_score])

KeepRelevanceOrder(cands, pop) == cands

\* neighborhood.py:157  sort(key=lambda x: abs(x["popularity"] - root_pop))
SortByPopularityDistance(cands, pop) ==
    StableSort(cands, [i \in 1..Len(cands) |-> Abs(cands[i].popularity - pop)])

InitialSeenNobody(artist_id) == {}

\* neighborhood.py:73  seen_ids = {artist_id}
InitialSeen(artist_id) == {artist_id}

\* neighborhood.py:115-146: one artist of a result page
ProcessArtist(c, a) ==
    IF a.id \in c.seen_ids
    THEN [c EXCEPT !.skipped_root = @ \/ a.id = c.artist_id,
                   !.skipped_repeat = @ \/ a.id # c.artist_id]
    ELSE LET seen == [c EXCEPT !.seen_ids = @ \cup {a.id}]
         IN IF a.popularity < PopFloor
            THEN seen
            ELSE [seen EXCEPT !.all_candidates =
                    Append(@, Candidate(a, c.queries[c.query],
                                        SearchGenres(Get(c.root)),
                                        Get(c.root).popularity)),
                              !.collected = @ \cup {a.id},
                              !.added_after_failure = @ \/ c.failed_query]

\* neighborhood.py:152-167
NeighborhoodResult(c) ==
    LET ranked == SortByRelevance(c.all_candidates)
        capped == Slice(ranked, c.max_artists)
        neighbors == SortByPopularityDistance(capped, Get(c.root).popularity)
    IN [root |-> Get(c.root), neighbors |-> neighbors, total_found |-> Len(neighbors)]

----------------------------------------------------------------------------
(* SpecCrawler: one build_artist_neighborhood call against a provider that *)
(* answers each query with a failure or with any page of catalog artists,  *)
(* the root and repeated artists included.  The artists of a page are      *)
(* drawn one by one as the loop of line 115 reaches them.  The call reads  *)
(* max_artists at line 154 and nowhere before: the value the request       *)
(* carries is drawn there.                                                 *)

NewCrawl(artist_id) ==
    [pc |-> "resolve", artist_id |-> artist_id,
     root |-> None, queries |-> << >>, query |-> 1, page_left |-> 0,
     seen_ids |-> {}, all_candidates |-> << >>,
     skipped_root |-> FALSE, skipped_repeat |-> FALSE,
     issued |-> 0, collected |-> {},
     failed_query |-> FALSE, held_at_failure |-> FALSE,
     added_after_failure |-> FALSE,
     result |-> None]

InitCrawler ==
    /\ active_session = EmptySession
    /\ response = NoResponse
    /\ inflight = IdleInflight
    /\ score_input = None
    /\ score_report = None
    /\ crawl \in {NewCrawl(id) : id \in RootRequests}
    /\ call = NoCall

NotCrawl == <<active_session, response, inflight, score_input, score_report, call>>

\* the loop of line 110 moves to the next query
NextQuery(c) == [c EXCEPT !.query = @ + 1, !.pc = "search", !.page_left = 0]

\* neighborhood.py:112: one more sp.search call
IssueQuery(c) == [c EXCEPT !.issued = @ + 1]

AbortQueries(c) ==
    [c EXCEPT !.query = Len(c.queries) + 1, !.pc = "search", !.page_left = 0,
              !.failed_query = TRUE,
              !.held_at_failure = @ \/ c.all_candidates # << >>]

\* neighborhood.py:148-150: the except clause inside the loop; `continue`
\* goes on with the next query and all_candidates is left as it is
SkipQuery(c) ==
    NextQuery([c EXCEPT !.failed_query = TRUE,
                        !.held_at_failure = @ \/ c.all_candidates # << >>])

\* neighborhood.py:55-106: the call once sp.artist has answered
Resolved(c) ==
    [c EXCEPT !.pc = "search",
              !.root = Some(Catalog[c.artist_id]),
              !.queries = UniqueQueries(Catalog[c.artist_id]),
              !.seen_ids = InitialSeen(c.artist_id)]

\* neighborhood.py:45-106: sp.artist raises for an id it does not know, and
\* may fail for any id
ResolveRoot ==
    /\ crawl.pc = "resolve"
    /\ \E provider_ok \in BOOLEAN :
          IF provider_ok /\ crawl.artist_id \in ArtistIds
          THEN crawl' = Resolved(crawl)
          ELSE crawl' = [crawl EXCEPT
                   !.pc = "done",
                   !.result = Some([error |-> "Failed to fetch artist"])]
    /\ UNCHANGED NotCrawl

\* neighborhood.py:110-113, 148-150: sp.search for the next query raises,
\* and the query is skipped, or returns a page
Search ==
    /\ crawl.pc = "search"
    /\ crawl.query <= Len(crawl.queries)
    /\ \/ crawl' = SkipQuery(IssueQuery(crawl))
       \/ \E n \in 0..MaxPage :
             crawl' = IF n = 0 THEN NextQuery(IssueQuery(crawl))
                      ELSE [IssueQuery(crawl) EXCEPT !.pc = "page", !.page_left = n]
    /\ UNCHANGED NotCrawl

\* neighborhood.py:115-146: the next artist of the page
PageItem ==
    /\ crawl.pc = "page"
    /\ \E id \in ArtistIds :
          LET c == ProcessArtist(crawl, Catalog[id])
          IN crawl' = IF crawl.page_left = 1 THEN NextQuery(c)
                      ELSE [c EXCEPT !.page_left = @ - 1]
    /\ UNCHANGED NotCrawl

\* the call's max_artists parameter, as line 154 reads it
WithMaxArtists(c, max_artists) ==
    [f \in DOMAIN c \cup {"max_artists"} |->
        IF f = "max_artists" THEN max_artists ELSE c[f]]

\* neighborhood.py:152-167, after the last query
Rank ==
    /\ crawl.pc = "search"
    /\ crawl.query > Len(crawl.queries)
    /\ \E max_artists \in MaxArtistsValues :
          LET c == WithMaxArtists(crawl, max_artists)
          IN crawl' = [c EXCEPT !.pc = "done",
                                !.result = Some(NeighborhoodResult(c))]
    /\ UNCHANGED NotCrawl

NextCrawler == ResolveRoot \/ Search \/ PageItem \/ Rank

SpecCrawler == InitCrawler /\ [][NextCrawler]_vars

----------------------------------------------------------------------------
(* Claims about the crawler, under SpecCrawler *)

Returned == crawl.pc = "done" /\ "neighbors" \in DOMAIN Get(crawl.result)
Neighbors == Get(crawl.result).neighbors
NeighborIds == {Neighbors[i].id : i \in DOMAIN Neighbors}

\* C9: the returned neighbor list holds no identifier twice and never the
\* root's own identifier, whatever pages the provider returned.
C9_NeighborsDistinctWithoutRoot ==
    Returned =>
        /\ \A i, j \in DOMAIN Neighbors : Neighbors[i].id = Neighbors[j].id => i = j
        /\ Get(crawl.result).root.id \notin NeighborIds

\* C9 witness: a returned list of three neighbors from pages in which the
\* root appeared and an artist was repeated
C9_Witness ==
    /\ Returned
    /\ crawl.skipped_root
    /\ crawl.skipped_repeat
    /\ Len(Neighbors) = 3

\* The candidates that survived the filters, and the cap a request asks
\* for: a negative maximum admits no entry, null asks for no cap.
Survivors == crawl.all_candidates
CapOf(max_artists, n) ==
    IF max_artists = None THEN n
    ELSE IF Get(max_artists) < 0 THEN 0 ELSE Get(max_artists)

\* C10: for every max_artists a request may carry the returned list has at
\* most max_artists entries, they are the survivors of highest relevance,
\* and total_found is the length of the list.
C10_NeighborsCappedAtMaximum ==
    Returned =>
        /\ Len(Neighbors) <= CapOf(crawl.max_artists, Len(Survivors))
        /\ Get(crawl.result).total_found = Len(Neighbors)
        /\ \A i \in DOMAIN Survivors :
              Survivors[i].id \notin NeighborIds =>
                  \A j \in DOMAIN Neighbors :
                      Neighbors[j].relevance_score >= Survivors[i].relevance_score

\* the popularity distance of neighbor i to the root
PopularityDistance(i) ==
    Abs(Neighbors[i].popularity - Get(crawl.result).root.popularity)

\* C11: the returned list is ordered by non-decreasing popularity distance
\* to the root, and of two neighbors at the same distance the one listed
\* first has the relevance that is not lower.
C11_NeighborsByPopularityDistance ==
    Returned =>
        \A i, j \in DOMAIN Neighbors :
            i < j =>
                /\ PopularityDistance(i) <= PopularityDistance(j)
                /\ PopularityDistance(i) = PopularityDistance(j) =>
                      Neighbors[i].relevance_score >= Neighbors[j].relevance_score

\* C11 witness: a returned list in which two neighbors at the same distance
\* differ in relevance and were collected in the other order, and in which
\* a neighbor of higher relevance stands behind one that is closer
C11_Witness ==
    /\ Returned
    /\ \E i, j \in DOMAIN Neighbors :
          /\ i < j
          /\ PopularityDistance(i) = PopularityDistance(j)
          /\ Neighbors[i].relevance_score > Neighbors[j].relevance_score
          /\ \E k, l \in DOMAIN Survivors :
                /\ k < l
                /\ Survivors[k].id = Neighbors[j].id
                /\ Survivors[l].id = Neighbors[i].id
    /\ \E i, j \in DOMAIN Neighbors :
          /\ i < j
          /\ PopularityDistance(i) < PopularityDistance(j)
          /\ Neighbors[i].relevance_score < Neighbors[j].relevance_score

\* C12: a provider failure while resolving the root ends the call with an
\* error and no neighbor list; a failure on a query is skipped: every query
\* of the list is still issued, and every candidate collected, before or
\* after the failure, is in the result (for a maximum that cuts nothing).
C12_RootFailureFatalQueryFailureSkipped ==
    /\ (crawl.pc = "done" /\ crawl.root = None) =>
            /\ "error" \in DOMAIN Get(crawl.result)
            /\ "neighbors" \notin DOMAIN Get(crawl.result)
    /\ (crawl.pc = "done" /\ crawl.root # None) =>
            /\ Returned
            /\ crawl.issued = Len(crawl.queries)
            /\ crawl.max_artists = Some(DefaultMaxArtists) =>
                    NeighborIds = crawl.collected

\* C12 witness: a returned list with candidates collected both before and
\* after a query that failed
C12_Witness ==
    /\ Returned
    /\ crawl.max_artists = Some(DefaultMaxArtists)
    /\ crawl.failed_query
    /\ crawl.held_at_failure
    /\ crawl.added_after_failure
    /\ Len(Neighbors) >= 2

\* C12 witness for the fatal half: the root could not be resolved
C12_RootFailed ==
    crawl.pc = "done" /\ crawl.root = None

----------------------------------------------------------------------------
(* SpecQueries: the query list (neighborhood.py:66-106) of every root the  *)
(* provider may answer with: a name and a list of genres, genres of the    *)
(* adjacency table and others, more than three of them included.           *)

\* the longest genre list of a root
MaxGenres == 4

RootNames == {"a1", "A4", "Rap"}
GenrePool == {"rap", "hip hop", "trap", "jazz"}
QueryRoots ==
    {[name |-> name, genres |-> genres, popularity |-> 60] :
        name \in RootNames, genres \in SeqsUpTo(GenrePool, MaxGenres)}

NotCall == <<active_session, response, inflight, score_input, score_report, crawl>>

InitQueries ==
    /\ active_session = EmptySession
    /\ response = NoResponse
    /\ inflight = IdleInflight
    /\ score_input = None
    /\ score_report = None
    /\ crawl = IdleCrawl
    /\ call \in {[op |-> "queries", root |-> root, unique_queries |-> None] :
                    root \in QueryRoots}

BuildQueries ==
    /\ call.op = "queries"
    /\ call.unique_queries = None
    /\ call' = [call EXCEPT !.unique_queries = Some(UniqueQueries(call.root))]
    /\ UNCHANGED NotCall

NextQueries == BuildQueries

SpecQueries == InitQueries /\ [][NextQueries]_vars

----------------------------------------------------------------------------
(* Claims about the query list, under SpecQueries *)

QueriesBuilt == call.op = "queries" /\ call.unique_queries # None
Queries == Get(call.unique_queries)
QuerySet == Range(Queries)

\* the queries the list is made of, in the order they are asked for: the
\* first 3 genres, the name, the adjacency keywords of the first 2 genres
GenreQueriesOf(genres) ==
    {GenreQuery(genres[i]) : i \in 1..(IF Len(genres) < 3 THEN Len(genres) ELSE 3)}
KeywordQueriesOf(genres) ==
    {GenreQuery(kw) : kw \in UNION {Range(genre_keywords(genres[i])) :
                        i \in 1..(IF Len(genres) < 2 THEN Len(genres) ELSE 2)}}

\* the place of a query in the list, 0 when it is not there
PlaceOf(q) ==
    IF q \in QuerySet THEN CHOOSE i \in DOMAIN Queries : Queries[i] = q ELSE 0

\* C19: the query list holds no query twice; it is made of the genre
\* queries of the root's first 3 genres, the root's name and the adjacency
\* keyword queries of the first 2 genres, each at its first occurrence in
\* that order; when the root has no genres the (lower-cased) root name is
\* the sole genre-style query.
C19_QueryListDeduplicatedInOrder ==
    QueriesBuilt =>
        LET root == call.root
            genres == root.genres
            first3 == Prefix(genres, 3)
        IN /\ \A i, j \in DOMAIN Queries : Queries[i] = Queries[j] => i = j
           /\ genres # << >> =>
                 /\ QuerySet = GenreQueriesOf(genres) \cup {NameQuery(root.name)}
                                   \cup KeywordQueriesOf(genres)
                 /\ \A i \in DOMAIN first3 :
                       PlaceOf(GenreQuery(first3[i])) <= i
                 /\ \A i, j \in DOMAIN first3 :
                       (i < j /\ \A k \in 1..(j - 1) : first3[k] # first3[j]) =>
                           PlaceOf(GenreQuery(first3[i])) < PlaceOf(GenreQuery(first3[j]))
                 /\ \A q \in GenreQueriesOf(genres) :
                       PlaceOf(q) < PlaceOf(NameQuery(root.name))
                 /\ \A q \in KeywordQueriesOf(genres) \ GenreQueriesOf(genres) :
                       PlaceOf(q) > PlaceOf(NameQuery(root.name))
           /\ genres = << >> =>
                 /\ Queries[1] = GenreQuery(Lower(root.name))
                 /\ NameQuery(root.name) \in QuerySet
                 /\ {q \in QuerySet : q.genre_tag} = {GenreQuery(Lower(root.name))}

----------------------------------------------------------------------------
(* SpecOrder: the crawl of root 4 (two queries) run twice against the same *)
(* provider answers, once in the order of the query list and once in any   *)
(* order of the same queries.                                              *)

\* the artists the provider's pages are drawn from: the root, two artists
\* of equal relevance for it and one of higher relevance
OrderRoot == 4
OrderArtists == {2, 3, 4, 6}
OrderQueries == UniqueQueries(Catalog[OrderRoot])

\* an answer per query: sp.search raised (None) or returned a page
OrderAnswers ==
    [DOMAIN OrderQueries ->
        {None} \cup {Some(page) : page \in SeqsUpTo(OrderArtists, MaxPage)}]

\* the orders the queries can be processed in
Orders ==
    {order \in [DOMAIN OrderQueries -> DOMAIN OrderQueries] :
        \A i, j \in DOMAIN OrderQueries : order[i] = order[j] => i = j}

\* neighborhood.py:115-146: the loop over the artists of one page
RECURSIVE ProcessPage(_, _)
ProcessPage(c, page) ==
    IF page = << >> THEN c
    ELSE ProcessPage(ProcessArtist(c, Catalog[Head(page)]), Tail(page))

\* neighborhood.py:110-150: the loop over the queries, taken in `order`
RECURSIVE ProcessQueries(_, _, _)
ProcessQueries(c, order, answers) ==
    IF order = << >> THEN c
    ELSE LET q == Head(order)
             issued == IssueQuery([c EXCEPT !.query = q])
             after == IF answers[q] = None THEN SkipQuery(issued)
                      ELSE ProcessPage(issued, Get(answers[q]))
         IN ProcessQueries(after, Tail(order), answers)

\* neighborhood.py:55-167 with the queries taken in `order`
CrawlInOrder(artist_id, order, answers, max_artists) ==
    LET c == WithMaxArtists(
                 ProcessQueries(Resolved(NewCrawl(artist_id)), order, answers),
                 max_artists)
    IN [c EXCEPT !.pc = "done", !.result = Some(NeighborhoodResult(c))]

InitOrder ==
    /\ active_session = EmptySession
    /\ response = NoResponse
    /\ inflight = IdleInflight
    /\ score_input = None
    /\ score_report = None
    /\ crawl = IdleCrawl
    /\ call \in {[op |-> "orders", answers |-> answers, order |-> order,
                   max_artists |-> max_artists, listed |-> None, permuted |-> None] :
                    answers \in OrderAnswers, order \in Orders,
                    max_artists \in MaxArtistsValues}

\* the crawl as the code runs it, in the order of the list
CrawlListed ==
    /\ call.op = "orders"
    /\ call.listed = None
    /\ call' = [call EXCEPT !.listed =
                    Some(CrawlInOrder(OrderRoot, [i \in DOMAIN OrderQueries |-> i],
                                      call.answers, call.max_artists))]
    /\ UNCHANGED NotCall

\* the same crawl with the queries in the other order
CrawlPermuted ==
    /\ call.op = "orders"
    /\ call.listed # None
    /\ call.permuted = None
    /\ call' = [call EXCEPT !.permuted =
                    Some(CrawlInOrder(OrderRoot, call.order,
                                      call.answers, call.max_artists))]
    /\ UNCHANGED NotCall

NextOrder == CrawlListed \/ CrawlPermuted

SpecOrder == InitOrder /\ [][NextOrder]_vars

----------------------------------------------------------------------------
(* Claims about the processing order, under SpecOrder *)

OrdersRun == call.op = "orders" /\ call.listed # None /\ call.permuted # None
ListedNeighbors == Get(Get(call.listed).result).neighbors
PermutedNeighbors == Get(Get(call.permuted).result).neighbors
IdsOf(cands) == {cands[i].id : i \in DOMAIN cands}
IdRelevance(cands) == {<<cands[i].id, cands[i].relevance_score>> : i \in DOMAIN cands}
RelevanceCount(cands, r) == Cardinality({i \in DOMAIN cands : cands[i].relevance_score = r})

\* C18 as claimed: whatever the order the queries are processed in, the
\* returned neighbor list has the same identifiers with the same relevance
\* scores.
C18_OrderChangesOnlyLabels ==
    OrdersRun => IdRelevance(ListedNeighbors) = IdRelevance(PermutedNeighbors)

\* C18 amended: whatever the order, the surviving candidates have the same
\* identifiers with the same relevance scores, and the returned lists have
\* the same length and the same relevance scores; a neighbor returned
\* under one order only has the relevance score of a neighbor returned
\* under the other order only (the maximum cut among equal scores).
C18_OrderChangesLabelsAndTiesAtTheCut ==
    OrdersRun =>
        /\ IdRelevance(Get(call.listed).all_candidates)
              = IdRelevance(Get(call.permuted).all_candidates)
        /\ Len(ListedNeighbors) = Len(PermutedNeighbors)
        /\ \A i \in DOMAIN ListedNeighbors :
              LET r == ListedNeighbors[i].relevance_score
              IN RelevanceCount(ListedNeighbors, r) = RelevanceCount(PermutedNeighbors, r)
        /\ \A i \in DOMAIN ListedNeighbors :
              ListedNeighbors[i].id \notin IdsOf(PermutedNeighbors) =>
                  \E j \in DOMAIN PermutedNeighbors :
                      /\ PermutedNeighbors[j].id \notin IdsOf(ListedNeighbors)
                      /\ PermutedNeighbors[j].relevance_score
                            = ListedNeighbors[i].relevance_score

\* C18 witness: the two orders differ, both runs return the same two or
\* more neighbors, and one of them carries another query's label
C18_Witness ==
    /\ OrdersRun
    /\ call.order # [i \in DOMAIN OrderQueries |-> i]
    /\ Len(ListedNeighbors) >= 2
    /\ IdsOf(ListedNeighbors) = IdsOf(PermutedNeighbors)
    /\ \E i \in DOMAIN ListedNeighbors, j \in DOMAIN PermutedNeighbors :
          /\ ListedNeighbors[i].id = PermutedNeighbors[j].id
          /\ ListedNeighbors[i].matched_genre # PermutedNeighbors[j].matched_genre

\* C18 witness of the amended case: the maximum cut among candidates of
\* equal relevance and the two orders return different artists
C18_TieCutWitness ==
    /\ OrdersRun
    /\ IdsOf(ListedNeighbors) # IdsOf(PermutedNeighbors)

----------------------------------------------------------------------------
(* neighborhood.py: find_sonic_twins *)

\* the most neighbors the neighborhood of a call returns
MaxNeighbors == 3
\* the most feature vectors the feature provider returns for a neighbor
MaxVectors == 2

\* main.py:49  top_n: Optional[int] = 5
DefaultTopN == 5
\* neighborhood.py:338  top_tracks.get("tracks", [])[:5]
TopTracksCap == 5
\* neighborhood.py:391  sorted(track_names, ...)[:3]
ClosestCap == 3

\* the top_n a SonicTwinRequest may carry: null or any integer
TopNValues == {None} \cup {Some(n) : n \in {-1, 0, 1, 2, DefaultTopN}}

\* Feature vectors that differ from one another in tempo only, named by
\* their tempo: np.linalg.norm of the difference is the absolute tempo
\* difference.
TargetTempo == 120
RepresentativeTempos == {60, 120, 180}
Norm(target_vector, feat_vector) == Abs(target_vector - feat_vector)

RECURSIVE SeqSum(_)
SeqSum(seq) == IF seq = << >> THEN 0 ELSE Head(seq) + SeqSum(Tail(seq))

SeqMin(seq) == CHOOSE x \in Range(seq) : \A y \in Range(seq) : x <= y
SeqMax(seq) == CHOOSE x \in Range(seq) : \A y \in Range(seq) : x >= y

\* round(np.exp(-avg / 100) * 100, 2) in hundredths of a percent, for the
\* averages 0, 10, .., 60
SimilarityTable == <<10000, 9048, 8187, 7408, 6703, 6065, 5488>>

SimilarityFraction(avg_distance) ==
    CASE avg_distance % 100000 = 0 ->
            SimilarityTable[(avg_distance \div 100000) + 1] \div 100

\* neighborhood.py:379, the average in 1/10000
SimilarityPct(avg_distance) ==
    CASE avg_distance % 100000 = 0 ->
            SimilarityTable[(avg_distance \div 100000) + 1]

\* neighborhood.py:357-392: the entry of a neighbor whose feature vectors
\* are batch_content; distances in 1/10000 as round(.., 4) leaves them.
\* max_distance is not a field of the code's entry: it records the
\* farthest vector for the claims.
ArtistDistance(artist_id, target_vector, batch_content) ==
    LET distances == [i \in DOMAIN batch_content |->
                         Norm(target_vector, batch_content[i])]
        avg_distance == RoundDiv(Scale * SeqSum(distances), Len(distances), FALSE)
        rounded == [i \in DOMAIN distances |-> Scale * distances[i]]
    IN [artist_id |-> artist_id,
        avg_distance |-> avg_distance,
        min_distance |-> Scale * SeqMin(distances),
        similarity_pct |-> SimilarityPct(avg_distance),
        tracks_analyzed |-> Len(distances),
        closest_tracks |-> Prefix(StableSort(rounded, rounded), ClosestCap),
        max_distance |-> Scale * SeqMax(distances)]

KeepComparisonOrder(artist_distances) == artist_distances

\* neighborhood.py:401  artist_distances.sort(key=lambda x: x["avg_distance"])
SortByAvgDistance(artist_distances) ==
    StableSort(artist_distances,
               [i \in DOMAIN artist_distances |-> artist_distances[i].avg_distance])

\* neighborhood.py:400-416
TwinsResult(c) ==
    LET twins == Slice(SortByAvgDistance(c.artist_distances), c.top_n)
    IN [target |-> [track_id |-> c.track_id],
        twins |-> twins,
        total_compared |-> Len(c.artist_distances)]

----------------------------------------------------------------------------
(* SpecTwins: one find_sonic_twins call.  Every provider call fails or     *)
(* answers; the neighborhood is whatever build_artist_neighborhood         *)
(* returns (an error, or a list of up to MaxNeighbors distinct artists).   *)
(* The call reads top_n at line 402 and nowhere before: the value the      *)
(* request carries is drawn there.  failure names the failure of the       *)
(* target's resolution or of the neighborhood that the call met.           *)

NewTwins ==
    [op |-> "twins", pc |-> "track", track_id |-> 1,
     neighbor_artists |-> << >>, next |-> 1,
     artist_distances |-> << >>, skipped |-> {},
     failure |-> "none", result |-> None]

InitTwins ==
    /\ active_session = EmptySession
    /\ response = NoResponse
    /\ inflight = IdleInflight
    /\ score_input = None
    /\ score_report = None
    /\ crawl = IdleCrawl
    /\ call = NewTwins

\* a `return {"error": ...}` of find_sonic_twins
TwinsError(c, failure, error) ==
    [c EXCEPT !.pc = "done", !.failure = failure,
              !.result = Some([error |-> error])]

\* an exception that leaves find_sonic_twins: nothing is returned
TwinsRaised(c, failure) ==
    [c EXCEPT !.pc = "raised", !.failure = failure]

\* neighborhood.py:293-298: sp.track and the fields read from its answer
ResolveTrack ==
    /\ call.op = "twins" /\ call.pc = "track"
    /\ \E provider_ok \in BOOLEAN :
          call' = IF provider_ok THEN [call EXCEPT !.pc = "features"]
                  ELSE TwinsError(call, "track_lookup", "Failed to fetch track")
    /\ UNCHANGED NotCall

\* neighborhood.py:301-312: requests.get, response.json() and the checks
\* on the answer; the two calls stand outside any try
FetchTargetFeatures ==
    /\ call.op = "twins" /\ call.pc = "features"
    /\ \E outcome \in {"network_exception", "status_not_200", "body_not_json",
                        "empty_content", "features"} :
          call' = CASE outcome = "network_exception" -> TwinsRaised(call, outcome)
                    [] outcome = "body_not_json" -> TwinsRaised(call, outcome)
                    [] outcome = "status_not_200" ->
                         TwinsError(call, outcome, "Reccobeats returned status for target track")
                    [] outcome = "empty_content" ->
                         TwinsError(call, outcome, "No audio features found")
                    [] OTHER -> [call EXCEPT !.pc = "neighborhood"]
    /\ UNCHANGED NotCall

\* neighborhood.py:319-327: the neighborhood is an error, an empty list or
\* a list of distinct artists
BuildNeighborhood ==
    /\ call.op = "twins" /\ call.pc = "neighborhood"
    /\ \/ call' = TwinsError(call, "neighborhood", "Failed to build neighborhood")
       \/ \E n \in 0..MaxNeighbors :
             call' = IF n = 0
                     THEN TwinsError(call, "no_neighbors",
                                     "No neighboring artists found for comparison")
                     ELSE [call EXCEPT !.pc = "compare",
                                       !.neighbor_artists = [i \in 1..n |-> i]]
    /\ UNCHANGED NotCall

\* neighborhood.py:334-355, 396-398: no top tracks, a failed or empty
\* feature fetch, or any exception: the neighbor is passed over
SkipNeighbor ==
    /\ call.op = "twins" /\ call.pc = "compare"
    /\ call.next <= Len(call.neighbor_artists)
    /\ \E reason \in {"top_tracks_raised", "no_tracks", "network_exception",
                       "status_not_200", "body_not_json", "empty_content"} :
          call' = [call EXCEPT !.next = @ + 1,
                               !.skipped = @ \cup {call.neighbor_artists[call.next]}]
    /\ UNCHANGED NotCall

\* neighborhood.py:334-392: the feature provider answered with vectors
CompareNeighbor ==
    /\ call.op = "twins" /\ call.pc = "compare"
    /\ call.next <= Len(call.neighbor_artists)
    /\ \E batch_content \in SeqsUpTo(RepresentativeTempos, MaxVectors) \ {<< >>} :
          call' = [call EXCEPT
                     !.next = @ + 1,
                     !.artist_distances =
                         Append(@, ArtistDistance(call.neighbor_artists[call.next],
                                                  TargetTempo, batch_content))]
    /\ UNCHANGED NotCall

\* the call's top_n parameter, as line 402 reads it
WithTopN(c, top_n) ==
    [f \in DOMAIN c \cup {"top_n"} |-> IF f = "top_n" THEN top_n ELSE c[f]]

\* neighborhood.py:400-416, after the last neighbor
RankTwins ==
    /\ call.op = "twins" /\ call.pc = "compare"
    /\ call.next > Len(call.neighbor_artists)
    /\ \E top_n \in TopNValues :
          LET c == WithTopN(call, top_n)
          IN call' = [c EXCEPT !.pc = "done", !.result = Some(TwinsResult(c))]
    /\ UNCHANGED NotCall

NextTwins ==
    \/ ResolveTrack \/ FetchTargetFeatures \/ BuildNeighborhood
    \/ SkipNeighbor \/ CompareNeighbor \/ RankTwins

SpecTwins == InitTwins /\ [][NextTwins]_vars

----------------------------------------------------------------------------
(* Claims about the matcher, under SpecTwins *)

TwinsReturned ==
    call.op = "twins" /\ call.pc = "done" /\ "twins" \in DOMAIN Get(call.result)
Twins == Get(call.result).twins

\* C13: a failure to resolve the target track or its features (the lookup,
\* a raised network exception, a non-200 status, a body that cannot be
\* read, empty content) or to build the neighborhood ends the call with an
\* error value: no exception leaves the call and no ranking is returned.
C13_TargetFailureIsStructuredError ==
    (call.op = "twins" /\ call.failure # "none") =>
        /\ call.pc = "done"
        /\ "error" \in DOMAIN Get(call.result)
        /\ "twins" \notin DOMAIN Get(call.result)

\* C14 as claimed: a returned neighbor that has a representative vector
\* identical to the target (its least distance is 0) is reported with
\* avg_distance = 0 and similarity_pct = 100.0, whatever its other vectors.
C14_IdenticalVectorGivesFullSimilarity ==
    TwinsReturned =>
        \A i \in DOMAIN Twins :
            Twins[i].min_distance = 0 =>
                Twins[i].avg_distance = 0 /\ Twins[i].similarity_pct = 10000

\* C14 amended: a returned neighbor all of whose representative vectors are
\* identical to the target is reported with avg_distance = 0 and
\* similarity_pct = 100.0.
C14_AllIdenticalVectorsGiveFullSimilarity ==
    TwinsReturned =>
        \A i \in DOMAIN Twins :
            Twins[i].max_distance = 0 =>
                Twins[i].avg_distance = 0 /\ Twins[i].similarity_pct = 10000

\* C14 witness: a returned neighbor with two vectors, both identical to
\* the target, next to one that has an identical vector and another one
C14_Witness ==
    /\ TwinsReturned
    /\ \E i, j \in DOMAIN Twins :
          /\ Twins[i].tracks_analyzed = 2 /\ Twins[i].max_distance = 0
          /\ Twins[j].min_distance = 0 /\ Twins[j].max_distance > 0

TwinIds == {Twins[i].artist_id : i \in DOMAIN Twins}
Compared == call.artist_distances
Min(a, b) == IF a < b THEN a ELSE b

----------------------------------------------------------------------------
(* dna_builder.py:29-107 and scorer.py:24-47 on feature vectors whose only *)
(* non-zero feature is a positive tempo, for samples of identical vectors. *)
(* A float is a record: nan, or a value in 1/Scale.                        *)

\* dna_builder.py:8-11  len(DNA_FEATURES)
NFeatures == 9
\* dna_builder.py:79  np.searchsorted(cumulative, 0.90)
VarianceTarget == 9000
\* dna_builder.py:49 as the distance it gives: with epsilon = 1e-6 on the
\* diagonal of a zero covariance, the Mahalanobis distance is 1000 times
\* the Euclidean one
InverseEpsilonRoot == 1000

Float(v) == [nan |-> FALSE, v |-> v]
NaN == [nan |-> TRUE, v |-> 0]

\* a / b of two floats that are not negative: 0 / 0 is nan
FloatDiv(a, b) ==
    IF a.nan \/ b.nan \/ (a.v = 0 /\ b.v = 0) THEN NaN
    ELSE Float(RoundDiv(Scale * a.v, b.v, FALSE))

FloatAdd(a, b) == IF a.nan \/ b.nan THEN NaN ELSE Float(a.v + b.v)

NanFirstLess(a, b) == IF a.nan THEN ~b.nan ELSE (~b.nan /\ a.v < b.v)

\* the order numpy sorts and searches floats in: nan after every number
NanLastLess(a, b) == IF b.nan THEN ~a.nan ELSE (~a.nan /\ a.v < b.v)

\* np.cumsum
CumSum(seq) ==
    LET F[i \in 0..Len(seq)] ==
            IF i = 0 THEN << >>
            ELSE IF i = 1 THEN <<seq[1]>>
            ELSE Append(F[i - 1], FloatAdd(F[i - 1][i - 1], seq[i]))
    IN F[Len(seq)]

\* np.searchsorted(a, v), side left: the binary search between lo and hi
\* (0-based, a[mid] is a[mid + 1] here)
RECURSIVE BinarySearch(_, _, _, _)
BinarySearch(a, v, lo, hi) ==
    IF lo >= hi THEN lo
    ELSE LET mid == lo + ((hi - lo) \div 2)
         IN IF NanLastLess(a[mid + 1], v) THEN BinarySearch(a, v, mid + 1, hi)
            ELSE BinarySearch(a, v, lo, mid)
SearchSorted(a, v) == BinarySearch(a, v, 0, Len(a))

\* dna_builder.py:71-79.  The rows of the sample are identical, so the
\* normalized rows are zero: the variance of every component is 0, or, when
\* pca_noise says the float subtraction of the mean left a rounding error,
\* a least positive amount on the first component.
ExplainedVarianceRatio(df, pca_noise) ==
    LET n_components == Min(NFeatures, Len(df) - 1)
        explained_variance ==
            [i \in 1..n_components |-> Float(IF i = 1 /\ pca_noise THEN 1 ELSE 0)]
        total_var == Float(IF pca_noise THEN 1 ELSE 0)
    IN [i \in 1..n_components |-> FloatDiv(explained_variance[i], total_var)]

DimsFor90(explained_variance) ==
    SearchSorted(CumSum(explained_variance), Float(VarianceTarget)) + 1

\* dna_builder.py:13-113 for a sample of identical vectors, named by their
\* tempo: the gate and track_count of build_playlist_dna, the raw mean and
\* the statistics of lines 71-79
build_playlist_dna_statistics(df, playlist_name, pca_noise) ==
    LET dna == build_playlist_dna(df, playlist_name)
    IN IF "error" \in DOMAIN dna THEN dna
       ELSE LET explained_variance == ExplainedVarianceRatio(df, pca_noise)
            IN [playlist_name |-> dna.playlist_name,
                track_count |-> dna.track_count,
                sample |-> dna.sample,
                raw_mean_vector |-> df[1],
                explained_variance |-> explained_variance,
                dims_for_90 |-> DimsFor90(explained_variance)]

\* scorer.py:38-39: 1 - cosine(raw_song, raw_mean) of two vectors with a
\* positive tempo and nothing else
CosineSimilarity(raw_song, raw_mean) ==
    RoundDiv(Scale * raw_song * raw_mean, Abs(raw_song) * Abs(raw_mean), FALSE)

\* scorer.py:43: the scaler of a constant sample subtracts the mean and
\* divides by 1, and the inverse covariance is 1/epsilon on the diagonal
MahalanobisDistance(raw_song, raw_mean) ==
    InverseEpsilonRoot * Abs(raw_song - raw_mean)

----------------------------------------------------------------------------
(* SpecEndToEnd: a descriptor is built from MinTracks..MaxTracks identical *)
(* vectors and a song is scored against it, the same vector or another     *)
(* one, for every anomaly score the forest may give.                       *)

Tempos == {100, 120}

InitEndToEnd ==
    /\ active_session = EmptySession
    /\ response = NoResponse
    /\ inflight = IdleInflight
    /\ score_input = None
    /\ score_report = None
    /\ crawl = IdleCrawl
    /\ call \in {[op |-> "end_to_end", df |-> [i \in 1..n |-> tempo],
                   pca_noise |-> pca_noise, song |-> song, iso_raw |-> iso_raw,
                   iso_tie_up |-> it, blend_tie_up |-> bt,
                   dna |-> None, report |-> None] :
                    n \in MinTracks..MaxTracks, tempo \in Tempos,
                    pca_noise \in BOOLEAN, song \in Tempos,
                    iso_raw \in IsoRaws, it \in BOOLEAN, bt \in BOOLEAN}

\* dna_builder.py:13-113
BuildDescriptor ==
    /\ call.op = "end_to_end"
    /\ call.dna = None
    /\ call' = [call EXCEPT !.dna =
                    Some(build_playlist_dna_statistics(call.df, 1, call.pca_noise))]
    /\ UNCHANGED NotCall

\* scorer.py:9-89
ScoreVector ==
    /\ call.op = "end_to_end"
    /\ call.dna # None
    /\ call.report = None
    /\ LET dna == Get(call.dna)
           lib == Lib(CosineSimilarity(call.song, dna.raw_mean_vector),
                      MahalanobisDistance(call.song, dna.raw_mean_vector),
                      call.iso_raw, call.iso_tie_up, call.blend_tie_up)
       IN call' = [call EXCEPT !.report = Some(score_song(TrackOk, dna, lib))]
    /\ UNCHANGED NotCall

NextEndToEnd == BuildDescriptor \/ ScoreVector

SpecEndToEnd == InitEndToEnd /\ [][NextEndToEnd]_vars

\* C16: a descriptor built from 3 tracks with identical feature vectors
\* has track_count = 3 and dims_for_90 = 1, and that same vector scored
\* against it gets cosine score 1 and Mahalanobis score 1, a composite of
\* at least 0.60 and the verdict ADD, whatever the anomaly score.
C16_IdenticalTracksGiveAdd ==
    (call.op = "end_to_end" /\ Len(call.df) = 3) =>
        /\ call.dna # None =>
              /\ Get(call.dna).track_count = 3
              /\ Get(call.dna).dims_for_90 = 1
        /\ (call.report # None /\ call.song = call.df[1]) =>
              LET scores == Get(call.report).scores
              IN /\ scores.cosine_similarity = Scale
                 /\ scores.mahalanobis_fit = Scale
                 /\ scores.composite >= AddThreshold
                 /\ Get(call.report).verdict = "ADD"

\* C16 witness: the vector of 3 identical tracks scored against their
\* descriptor, whose variance ratios are nan, with the anomaly score 0:
\* the composite is 0.75
C16_Witness ==
    /\ call.op = "end_to_end"
    /\ Len(call.df) = 3
    /\ call.report # None
    /\ call.song = call.df[1]
    /\ Get(call.dna).explained_variance[1].nan
    /\ Get(call.report).scores.isolation_forest = 0
    /\ Get(call.report).scores.composite = 7500

----------------------------------------------------------------------------
(* main.py:170-216: the cohesion report.  Feature values are in hundredths *)
(* and the reported tightness, identity and conviction in thousandths;     *)
(* cohesion_score is in tenths of a percent.                               *)

\* round(x, 3) at main.py:210-212
Milli == 1000

\* dna_builder.py:8-11
DNA_FEATURES ==
    <<"danceability", "energy", "loudness", "speechiness", "acousticness",
      "instrumentalness", "liveness", "valence", "tempo">>

\* main.py:178-182
FEATURE_RANGES ==
    [danceability |-> 100, energy |-> 100, loudness |-> 6000,
     speechiness |-> 100, acousticness |-> 100, instrumentalness |-> 100,
     liveness |-> 100, valence |-> 100, tempo |-> 20000]

\* main.py:184-188
baselines ==
    [danceability |-> 55, energy |-> 55, loudness |-> -800,
     speechiness |-> 8, acousticness |-> 30, instrumentalness |-> 10,
     liveness |-> 18, valence |-> 45, tempo |-> 12000]

Max(a, b) == IF a > b THEN a ELSE b

\* the integer square root of n, found between lo and hi
RECURSIVE SqrtBetween(_, _, _)
SqrtBetween(n, lo, hi) ==
    IF lo >= hi THEN lo
    ELSE LET mid == (lo + hi + 1) \div 2
         IN IF mid * mid <= n THEN SqrtBetween(n, mid, hi)
            ELSE SqrtBetween(n, lo, mid - 1)

\* dna_builder.py:33  feature_data.mean()
ColumnMean(column) == RoundDiv(SeqSum(column), Len(column), FALSE)

\* dna_builder.py:34  feature_data.std(): the sample deviation, over n - 1
ColumnStd(column) ==
    LET m == ColumnMean(column)
        squares == [k \in 1..Len(column) |-> (column[k] - m) * (column[k] - m)]
        variance == SeqSum(squares) \div (Len(column) - 1)
    IN SqrtBetween(variance, 0, Min(variance, 40000))

\* The three fractions below are over the denominator 10 * natural_range.

TightnessUnclamped(std, natural_range) == 10 * natural_range - 30 * std

\* main.py:198-199  max(0.0, 1.0 - range_ratio * 3)
Tightness(std, natural_range) == Max(0, 10 * natural_range - 30 * std)

\* main.py:202-203  min(deviation_abs / natural_range * 2.5, 1.0)
Identity(mean, baseline, natural_range) ==
    Min(25 * Abs(mean - baseline), 10 * natural_range)

\* main.py:206
Conviction(tightness, identity) == Max(tightness, identity)

\* round(fraction, 3) at main.py:210-212
Round3(numerator, natural_range, tie_up) ==
    RoundDiv(Milli * numerator, 10 * natural_range, tie_up)

\* main.py:194-213: one entry of conviction_details
ConvictionDetail(f, mean, std, tie_up) ==
    LET natural_range == FEATURE_RANGES[f]
        tightness == Tightness(std, natural_range)
        identity == Identity(mean, baselines[f], natural_range)
        conviction == Conviction(tightness, identity)
    IN [feature |-> f,
        tightness |-> Round3(tightness, natural_range, tie_up),
        identity |-> Round3(identity, natural_range, tie_up),
        conviction |-> Round3(conviction, natural_range, tie_up)]

\* main.py:190-216
CohesionReport(df, tie_up) ==
    LET conviction_details ==
            [k \in 1..NFeatures |->
                ConvictionDetail(DNA_FEATURES[k], ColumnMean(df[DNA_FEATURES[k]]),
                                 ColumnStd(df[DNA_FEATURES[k]]), tie_up)]
        convictions == [k \in 1..NFeatures |-> conviction_details[k].conviction]
    IN [conviction_details |-> conviction_details,
        cohesion_score |-> RoundDiv(SeqSum(convictions), NFeatures, tie_up)]

----------------------------------------------------------------------------
(* SpecCohesion: the report of a playlist of three tracks whose values of  *)
(* each feature are, independently, all at the baseline, spread over the   *)
(* feature's range, or at the end of the range far from the baseline.      *)

\* the least value of a feature: loudness is in -60..0 dB, the others
\* start at 0
FeatureFloor(f) == IF f = "loudness" THEN -FEATURE_RANGES[f] ELSE 0

Shapes == {"baseline", "spread", "far"}

Column(f, shape) ==
    LET r == FEATURE_RANGES[f]
        b == baselines[f]
        lo == FeatureFloor(f)
    IN CASE shape = "baseline" -> <<b, b, b>>
         [] shape = "spread" -> <<lo + r \div 10, lo + r \div 2, lo + (9 * r) \div 10>>
         [] shape = "far" ->
              IF 100 * (b - lo) >= 45 * r
              THEN <<lo, lo + r \div 20, lo + r \div 10>>
              ELSE <<lo + (9 * r) \div 10, lo + (19 * r) \div 20, lo + r>>

FeatureSet == {DNA_FEATURES[k] : k \in 1..NFeatures}

InitCohesion ==
    /\ active_session = EmptySession
    /\ response = NoResponse
    /\ inflight = IdleInflight
    /\ score_input = None
    /\ score_report = None
    /\ crawl = IdleCrawl
    /\ \E shape \in [FeatureSet -> Shapes], tie_up \in BOOLEAN :
          call = [op |-> "cohesion",
                  df |-> [f \in FeatureSet |-> Column(f, shape[f])],
                  tie_up |-> tie_up, report |-> None]

\* main.py:190-216
ReportCohesion ==
    /\ call.op = "cohesion"
    /\ call.report = None
    /\ call' = [call EXCEPT !.report = Some(CohesionReport(call.df, call.tie_up))]
    /\ UNCHANGED NotCall

NextCohesion == ReportCohesion

SpecCohesion == InitCohesion /\ [][NextCohesion]_vars

CohesionReported == call.op = "cohesion" /\ call.report # None

\* C20: in the cohesion report, for each of the 9 features tightness,
\* identity and conviction lie in [0,1] and conviction is the larger of
\* tightness and identity; cohesion_score is the mean conviction times 100,
\* to one decimal, and lies in [0,100].
C20_ConvictionsAndCohesionInRange ==
    CohesionReported =>
        LET report == Get(call.report)
            details == report.conviction_details
            total == SeqSum([k \in 1..Len(details) |-> details[k].conviction])
        IN /\ Len(details) = 9
           /\ \A k \in 1..Len(details) :
                 /\ details[k].tightness \in 0..Milli
                 /\ details[k].identity \in 0..Milli
                 /\ details[k].conviction \in 0..Milli
                 /\ details[k].conviction >= details[k].tightness
                 /\ details[k].conviction >= details[k].identity
                 /\ details[k].conviction \in {details[k].tightness, details[k].identity}
           /\ 2 * Abs(9 * report.cohesion_score - total) <= 9
           /\ report.cohesion_score \in 0..Milli

\* C20 witness: a report where one feature is spread so wide that its
\* tightness is cut at 0, another sits so far from the baseline that its
\* identity is cut at 1 and is its conviction, and a third has a tightness
\* above its identity
C20_Witness ==
    /\ CohesionReported
    /\ LET details == Get(call.report).conviction_details
       IN /\ \E k \in 1..9 :
                /\ ColumnStd(call.df[DNA_FEATURES[k]]) * 3 > FEATURE_RANGES[DNA_FEATURES[k]]
                /\ details[k].tightness = 0
          /\ \E k \in 1..9 :
                /\ 25 * Abs(ColumnMean(call.df[DNA_FEATURES[k]]) - baselines[DNA_FEATURES[k]])
                      > 10 * FEATURE_RANGES[DNA_FEATURES[k]]
                /\ details[k].identity = Milli
                /\ details[k].tightness < Milli
          /\ \E k \in 1..9 :
                /\ details[k].identity < details[k].tightness
                /\ details[k].conviction = details[k].tightness
          /\ Get(call.report).cohesion_score \in 1..(Milli - 1)

====
